---- MODULE Spec2Model ----
(***************************************************************************)
(* Model of the chunked text-to-speech generation pipeline of the TTS      *)
(* microservice: the text chunker (app/utils/chunking.py), the upstream    *)
(* client with its retry loop and the generation orchestrator              *)
(* (app/services/elevenlabs_service.py), the error classification          *)
(* (app/middleware/error_handler.py), the voice registry                  *)
(* (app/services/voice_manager.py), the audio combiner                     *)
(* (app/utils/audio_utils.py), the lifespan handler (app/main.py) and the  *)
(* response of the generation route (app/api/routes_tts.py).               *)
(*                                                                         *)
(* A Python str is a sequence of one-character strings.                    *)
(***************************************************************************)
EXTENDS Integers, Sequences, FiniteSets, TLC

VARIABLES
    text,          \* the text argument of chunk_text / text_to_speech
    chunk_size,    \* max_length of chunk_text; chunk_size of text_to_speech
    chunks,        \* the list returned by chunk_text
    pc,            \* position of the running operation
    op,            \* the running operation: text_to_speech, get_voices or none
    voices,        \* VoiceManager._voices: voice name -> configuration
    max_retries,   \* ElevenLabsTTSService.max_retries
    voice_name,    \* the voice_name argument of text_to_speech
    resolved,      \* voice_id, model_id and voice_settings of text_to_speech
    idx,           \* i of the chunk loop of text_to_speech (0 before the loop)
    audio_chunks,  \* audio_chunks of text_to_speech
    attempt,       \* attempt of the retry loop of the running upstream call
    in_flight,     \* an HTTP request of the upstream call awaits its response
    outcomes,      \* what each attempt of the running upstream call received
    sleeps,        \* backoff sleeps of the running upstream call
    delay,         \* the delay _sleep_backoff is sleeping, in ticks
    calls,         \* HTTP requests the running operation has issued
    reports,       \* metrics.record_elevenlabs_request calls of the upstream call
    pauses,        \* inter-chunk delays of the running operation
    result,        \* what the operation returned or raised
    output_format, \* the format handed to combine_audio_chunks
    lifespan,      \* position of the lifespan handler of app/main.py
    client_closed, \* tts_service.client.is_closed
    aclose_calls,  \* calls of tts_service.aclose() so far
    retry_after_hdr, \* the retry_after argument _sleep_backoff sleeps on
    metadata       \* what generate_tts makes of the audio it was returned

chunkVars == <<text, chunk_size, chunks>>
callVars == <<attempt, in_flight, outcomes, sleeps, delay, retry_after_hdr,
              calls, reports>>
reqVars == <<voice_name, output_format, resolved, idx, audio_chunks, pauses,
             result, metadata>>
lifeVars == <<lifespan, client_closed, aclose_calls>>
svcVars == <<op, voices, max_retries, lifeVars, callVars, reqVars>>

vars == <<text, chunk_size, chunks, pc, op, voices, max_retries, voice_name,
          resolved, idx, audio_chunks, attempt, in_flight, outcomes, sleeps,
          delay, calls, reports, pauses, result, output_format, lifespan,
          client_closed, aclose_calls, retry_after_hdr, metadata>>

----------------------------------------------------------------------------
(* Bounds of the model.                                                    *)

\* longest text handed to chunk_text in SpecChunk
MaxLen == 6
\* largest max_length handed to chunk_text in SpecChunk
MaxChunk == 3
\* largest max_retries the service is configured with
MaxRetries == 3
\* longest list handed to combine_audio_chunks in SpecCombine
MaxAudio == 3
\* largest max_retries, and so largest attempt number, in SpecBackoff
MaxAttempt == 6
\* longest text handed to split_sentences in SpecSentences, the examples aside
MaxSentence == 6
\* largest max_length handed to chunk_text in SpecExample
MaxWidth == 1000
\* settings.max_text_length, scaled down (10000 in app/core/config.py)
max_text_length == 2
\* settings.default_chunk_size, scaled down (2500 in app/core/config.py)
default_chunk_size == 1

----------------------------------------------------------------------------
(* Characters and the str methods the chunker uses.                        *)

\* the letters of [A-Za-z], lower case and upper case in the same order
LowerLetters ==
    << "a", "b", "c", "d", "e", "f", "g", "h", "i", "j", "k", "l", "m",
       "n", "o", "p", "q", "r", "s", "t", "u", "v", "w", "x", "y", "z" >>
UpperLetters ==
    << "A", "B", "C", "D", "E", "F", "G", "H", "I", "J", "K", "L", "M",
       "N", "O", "P", "Q", "R", "S", "T", "U", "V", "W", "X", "Y", "Z" >>
Letters == { LowerLetters[k] : k \in 1..26 } \cup { UpperLetters[k] : k \in 1..26 }
Spaces == {" ", "\n"}
Puncts == {"."}
Chars == Letters \cup Spaces \cup Puncts
\* the characters the texts of SpecChunk are drawn from
TextChars == {"d", "r", " ", "."}

IsSpace(c) == c \in Spaces
IsAlpha(c) == c \in Letters
\* the characters of the regular expression class [.!?]
IsPunct(c) == c \in {".", "!", "?"}

\* str.lower(), character by character
LowerChar(c) ==
    IF \E k \in 1..26 : UpperLetters[k] = c
    THEN LowerLetters[CHOOSE k \in 1..26 : UpperLetters[k] = c]
    ELSE c

Lower(s) == [k \in 1..Len(s) |-> LowerChar(s[k])]

RECURSIVE LStrip(_)
LStrip(s) ==
    IF s = <<>> THEN <<>>
    ELSE IF IsSpace(Head(s)) THEN LStrip(Tail(s)) ELSE s

RECURSIVE RStrip(_)
RStrip(s) ==
    IF s = <<>> THEN <<>>
    ELSE IF IsSpace(s[Len(s)]) THEN RStrip(SubSeq(s, 1, Len(s) - 1)) ELSE s

\* str.strip()
Strip(s) == RStrip(LStrip(s))

\* text[a:b] of Python, for 0 <= a and 0 <= b (zero-based, b exclusive)
Slice(s, a, b) ==
    LET hi == IF b > Len(s) THEN Len(s) ELSE b
    IN  IF a >= hi THEN <<>> ELSE SubSeq(s, a + 1, hi)

\* str.split(): the maximal runs of non-whitespace characters, in order
RECURSIVE SplitFrom(_, _, _)
SplitFrom(s, i, word) ==
    IF i > Len(s)
    THEN IF word = <<>> THEN <<>> ELSE <<word>>
    ELSE IF IsSpace(s[i])
         THEN IF word = <<>>
              THEN SplitFrom(s, i + 1, <<>>)
              ELSE <<word>> \o SplitFrom(s, i + 1, <<>>)
         ELSE SplitFrom(s, i + 1, Append(word, s[i]))

Split(s) == SplitFrom(s, 1, <<>>)

\* f"{current} {item}".strip()
JoinStrip(current, item) == Strip(current \o <<" ">> \o item)

----------------------------------------------------------------------------
(* app/utils/chunking.py                                                   *)

\* abbreviations without "dr."
abbreviations_without_dr ==
    { <<"m", "r", ".">>, <<"m", "r", "s", ".">>,
      <<"m", "s", ".">>, <<"p", "r", "o", "f", ".">>,
      <<"i", "n", "c", ".">>, <<"l", "t", "d", ".">>,
      <<"e", "t", "c", ".">>, <<"v", "s", ".">>,
      <<"e", ".", "g", ".">>, <<"i", ".", "e", ".">> }

abbreviations ==
    { <<"d", "r", ".">>, <<"m", "r", ".">>, <<"m", "r", "s", ".">>,
      <<"m", "s", ".">>, <<"p", "r", "o", "f", ".">>,
      <<"i", "n", "c", ".">>, <<"l", "t", "d", ".">>,
      <<"e", "t", "c", ".">>, <<"v", "s", ".">>,
      <<"e", ".", "g", ".">>, <<"i", ".", "e", ".">> }

\* s matches [A-Za-z]+(?:\.[A-Za-z]+)* as a whole
WordMatch(s) ==
    /\ s # <<>>
    /\ IsAlpha(s[1])
    /\ IsAlpha(s[Len(s)])
    /\ \A k \in 1..Len(s) : IsAlpha(s[k]) \/ s[k] = "."
    /\ \A k \in 1..(Len(s) - 1) : ~(s[k] = "." /\ s[k + 1] = ".")

\* where $ lets the word of `before` end: at the end of `before`, or just
\* before the newline `before` ends with
DollarEnd(before) ==
    IF before # <<>> /\ before[Len(before)] = "\n"
    THEN Len(before) - 1
    ELSE Len(before)

\* re.search(r"([A-Za-z]+(?:\.[A-Za-z]+)*)$", before): the leftmost match that
\* ends where $ matches, or "" when there is none
PrevWord(before) ==
    LET n == DollarEnd(before)
        starts == { p \in 1..n : WordMatch(SubSeq(before, p, n)) }
    IN  IF starts = {} THEN <<>>
        ELSE LET p == CHOOSE q \in starts : \A r \in starts : q <= r
             IN  SubSeq(before, p, n)

\* end of the match of \s+ that begins at zero-based position p
RECURSIVE SpaceRunEnd(_, _)
SpaceRunEnd(t, p) ==
    IF p < Len(t) /\ IsSpace(t[p + 1]) THEN SpaceRunEnd(t, p + 1) ELSE p

\* the loop of split_sentences over re.finditer(r"([.!?])\s+", text); pos and
\* start are zero-based positions as in the source
RECURSIVE SentenceLoop(_, _, _, _)
SentenceLoop(t, pos, start, sentences) ==
    IF pos >= Len(t)
    THEN [sentences |-> sentences, start |-> start]
    ELSE IF IsPunct(t[pos + 1]) /\ pos + 1 < Len(t) /\ IsSpace(t[pos + 2])
         THEN LET punct_pos == pos
                  punct_char == t[punct_pos + 1]
                  match_end == SpaceRunEnd(t, pos + 1)
                  before == Slice(t, start, punct_pos)
                  prev_word == PrevWord(before)
                  token == IF punct_char = "."
                           THEN Lower(prev_word \o <<".">>)
                           ELSE Lower(prev_word)
              IN  IF token \in abbreviations
                  THEN SentenceLoop(t, match_end, start, sentences)
                  ELSE SentenceLoop(t, match_end, match_end,
                         Append(sentences,
                                Strip(Slice(t, start, punct_pos + 1))))
         ELSE SentenceLoop(t, pos + 1, start, sentences)

split_sentences(t) ==
    LET r == SentenceLoop(t, 0, 0, <<>>)
        tail == Strip(Slice(t, r.start, Len(t)))
    IN  IF tail # <<>> THEN Append(r.sentences, tail) ELSE r.sentences

\* [text[i:i + max_length] for i in range(0, len(text), max_length)]
RECURSIVE force_split_text(_, _)
force_split_text(t, max_length) ==
    IF t = <<>> THEN <<>>
    ELSE <<Slice(t, 0, max_length)>>
         \o force_split_text(Slice(t, max_length, Len(t)), max_length)

\* the for loop of chunk_by_words, from word k on
RECURSIVE WordLoop(_, _, _, _, _)
WordLoop(words, k, max_length, out, current) ==
    IF k > Len(words)
    THEN IF current # <<>> THEN Append(out, Strip(current)) ELSE out
    ELSE LET word == words[k]
         IN  IF Len(current) + Len(word) + 1 > max_length
             THEN IF current # <<>>
                  THEN WordLoop(words, k + 1, max_length,
                                Append(out, Strip(current)), word)
                  ELSE IF Len(word) > max_length
                       THEN WordLoop(words, k + 1, max_length,
                                     out \o force_split_text(word, max_length),
                                     current)
                       ELSE WordLoop(words, k + 1, max_length, out, current)
             ELSE WordLoop(words, k + 1, max_length, out,
                           JoinStrip(current, word))

chunk_by_words(t, max_length) == WordLoop(Split(t), 1, max_length, <<>>, <<>>)

\* the for loop of chunk_text, from sentence k on
RECURSIVE ChunkLoop(_, _, _, _, _)
ChunkLoop(sentences, k, max_length, out, current) ==
    IF k > Len(sentences)
    THEN IF current # <<>> THEN Append(out, Strip(current)) ELSE out
    ELSE LET sentence == sentences[k]
         IN  IF Strip(sentence) = <<>>
             THEN ChunkLoop(sentences, k + 1, max_length, out, current)
             ELSE IF Len(current) + Len(sentence) + 1 > max_length
                  THEN IF current # <<>>
                       THEN ChunkLoop(sentences, k + 1, max_length,
                                      Append(out, Strip(current)), sentence)
                       ELSE ChunkLoop(sentences, k + 1, max_length,
                                      out \o chunk_by_words(sentence, max_length),
                                      <<>>)
                  ELSE ChunkLoop(sentences, k + 1, max_length, out,
                                 JoinStrip(current, sentence))

\* chunk_text returning a short text as it came, not stripped
chunk_text_unstripped(t, max_length) ==
    IF t = <<>> THEN <<>>
    ELSE LET stripped == Strip(t)
         IN  IF Len(stripped) <= max_length THEN <<t>>
             ELSE ChunkLoop(split_sentences(stripped), 1, max_length,
                            <<>>, <<>>)

chunk_text(t, max_length) ==
    IF t = <<>> THEN <<>>
    ELSE LET stripped == Strip(t)
         IN  IF Len(stripped) <= max_length THEN <<stripped>>
             ELSE ChunkLoop(split_sentences(stripped), 1, max_length,
                            <<>>, <<>>)

----------------------------------------------------------------------------
(* app/middleware/error_handler.py: the exceptions. An exception is a       *)
(* record of its class, its error_code and its retryable flag.             *)

TTSException(type, error_code, retryable) ==
    [type |-> type, error_code |-> error_code, retryable |-> retryable]

\* ErrorCodeOf with the 403 branch lost
ErrorCodeOfWithout403(status_code) ==
    IF status_code = 401 THEN "AUTH_ERROR"
    ELSE IF status_code = 429 THEN "UPSTREAM_RATE_LIMIT"
    ELSE "UPSTREAM_ERROR"

\* ElevenLabsException.__init__: the error code of an upstream status code;
\* status_code None is written 0
ErrorCodeOf(status_code) ==
    IF status_code = 401 THEN "AUTH_ERROR"
    ELSE IF status_code = 403 THEN "FORBIDDEN"
    ELSE IF status_code = 429 THEN "UPSTREAM_RATE_LIMIT"
    ELSE IF status_code \in {500, 502, 503, 504} THEN "UPSTREAM_ERROR"
    ELSE "UPSTREAM_ERROR"

ElevenLabsException(status_code, retryable) ==
    TTSException("ElevenLabsException", ErrorCodeOf(status_code), retryable)

\* ValidationException carrying the error code of VoiceNotFoundException
ValidationExceptionNotFound ==
    TTSException("ValidationException", "VOICE_NOT_FOUND", FALSE)

ValidationException ==
    TTSException("ValidationException", "INVALID_INPUT", FALSE)

VoiceNotFoundException ==
    TTSException("VoiceNotFoundException", "VOICE_NOT_FOUND", FALSE)

----------------------------------------------------------------------------
(* app/services/voice_manager.py: the voice registry.                      *)

VoiceNames == {"adam"}

VoiceConfigs ==
    { [voice_id |-> "pNInz6obpgDQGcFmaJgB", model |-> "eleven_flash_v2_5",
       settings |-> "defaults"],
      [voice_id |-> "EXAVITQu4vr4xnSDxMaL", model |-> "eleven_turbo_v2_5",
       settings |-> "custom"] }

\* what load_voice_config can return: any registry over the model's voices
Registries == UNION { [D -> VoiceConfigs] : D \in SUBSET VoiceNames }

\* the fallback configuration of load_voice_config, cut to the model's voices
DefaultRegistry ==
    [n \in VoiceNames |->
        [voice_id |-> "pNInz6obpgDQGcFmaJgB", model |-> "eleven_flash_v2_5",
         settings |-> "defaults"]]

is_voice_available(name) == name \in DOMAIN voices

----------------------------------------------------------------------------
(* app/services/elevenlabs_service.py: the upstream client.                *)

\* _sleep_backoff counts in ticks of a quarter of a second
backoff_base == 2
backoff_max == 16

\* what one attempt receives: a response with its status code and content,
\* or the exception httpx raises
Response(status, content) ==
    [kind |-> "response", status |-> status, content |-> content]
TimeoutException == [kind |-> "timeout", status |-> 0, content |-> <<>>]
RequestError == [kind |-> "network", status |-> 0, content |-> <<>>]

\* the status codes the provider answers with in the model
Statuses == {200, 400, 401, 403, 429, 500, 501}

\* the retry-after header of a response
RetryAfterHeaders ==
    { [kind |-> "absent", value |-> 0], [kind |-> "empty", value |-> 0],
      [kind |-> "number", value |-> 0], [kind |-> "number", value |-> 40],
      [kind |-> "garbage", value |-> 0] }
NoHeader == [kind |-> "absent", value |-> 0]

\* the retry_after argument of _sleep_backoff after outcome o: the header of
\* a response, nothing after a timeout or a network error
HeadersOf(o) == IF o.kind = "response" THEN RetryAfterHeaders ELSE {NoHeader}

\* JittersOf drawing the jitter from [0, backoff_max)
JittersOfUpToMax(retry_after) ==
    IF retry_after.kind \in {"number", "garbage"} THEN {0}
    ELSE 0..(backoff_max - 1)

\* what random.uniform(0, backoff_base) can give, when it is called
JittersOf(retry_after) ==
    IF retry_after.kind \in {"number", "garbage"} THEN {0}
    ELSE 0..(backoff_base - 1)

\* response.content of a 200 response
Payloads == { <<>>, <<"a">>, <<"b">> }

Outcomes ==
    { Response(st, <<>>) : st \in Statuses \ {200} }
        \cup { Response(200, content) : content \in Payloads }
        \cup {TimeoutException, RequestError}

\* the value of a function that falls off its end
None == <<"None">>

RECURSIVE Pow2(_)
Pow2(n) == IF n <= 0 THEN 1 ELSE 2 * Pow2(n - 1)

Min(a, b) == IF a <= b THEN a ELSE b

\* BackoffDelay without the cap of backoff_max
BackoffDelayUncapped(att, retry_after, jitter) ==
    IF retry_after.kind \in {"number", "garbage"}
    THEN IF retry_after.kind = "number" THEN retry_after.value
         ELSE backoff_base
    ELSE backoff_base * Pow2(att - 1) + jitter

\* the delay of _sleep_backoff(attempt, retry_after); jitter is the value
\* random.uniform(0, backoff_base) gave
BackoffDelay(att, retry_after, jitter) ==
    IF retry_after.kind \in {"number", "garbage"}
    THEN IF retry_after.kind = "number" THEN retry_after.value
         ELSE backoff_base
    ELSE Min(backoff_max, backoff_base * Pow2(att - 1)) + jitter

\* the status codes of `response.status_code in {429, 500, 502, 503, 504}`
RetryStatuses == {429, 500, 502, 503, 504}

\* ShouldRetry with the attempt bound off by one
ShouldRetryOffByOne(status, att) ==
    status \in RetryStatuses /\ att + 1 < max_retries

\* `response.status_code in {...} and attempt < self.max_retries`
ShouldRetry(status, att) == status \in RetryStatuses /\ att < max_retries

\* MayRetry letting the last attempt sleep as well
MayRetryOnLast(att) == att <= max_retries

\* `if attempt < self.max_retries` of the except clauses
MayRetry(att) == att < max_retries

\* TimeoutError with the retryable argument left at its default
TimeoutErrorDefaultFlag == ElevenLabsException(0, FALSE)

\* raise ElevenLabsException("Request timeout ...", retryable=True)
TimeoutError == ElevenLabsException(0, TRUE)

\* raise ElevenLabsException(f"Network error ...", retryable=True)
NetworkError == ElevenLabsException(0, TRUE)

\* raise ElevenLabsException(msg, response.status_code)
StatusError(status) == ElevenLabsException(status, FALSE)

NoResult == [kind |-> "none"]
Raised(exc, site) == [kind |-> "raised", exc |-> exc, site |-> site]
Returned(value) == [kind |-> "returned", value |-> value]

\* TtsExcept wrapping upstream errors as well
TtsExceptWrapsUpstream(exc) ==
    IF exc.type = "ValidationException" THEN exc
    ELSE ElevenLabsException(0, FALSE)

\* the except clauses of text_to_speech: validation and upstream errors pass
\* through, anything else is wrapped
TtsExcept(exc) ==
    IF exc.type \in {"ValidationException", "ElevenLabsException"}
    THEN exc
    ELSE ElevenLabsException(0, FALSE)

\* TextTooLong with the limit off by one
TextTooLongOffByOne(t) == Len(t) > max_text_length + 1

\* TextTooLong with the limit itself rejected
TextTooLongAtLimit(t) == Len(t) >= max_text_length

\* `if len(text) > settings.max_text_length`
TextTooLong(t) == Len(t) > max_text_length

RECURSIVE Concat(_)
Concat(seqs) == IF seqs = <<>> THEN <<>> ELSE Head(seqs) \o Concat(Tail(seqs))

SUPPORTED_FORMATS == {"mp3", "wav", "ogg"}
Formats == {"mp3", "flac"}

\* format.lower() on the formats of the model
FormatLower(format) == IF format = "MP3" THEN "mp3" ELSE format

RECURSIVE ConcatReversed(_)
ConcatReversed(seqs) ==
    IF seqs = <<>> THEN <<>> ELSE ConcatReversed(Tail(seqs)) \o Head(seqs)

\* combine_audio_chunks joining the chunks last to first
combine_audio_chunks_reversed(audio, format, has_pydub, pydub_fails) ==
    IF audio = <<>> THEN [mode |-> "ValueError", data |-> <<>>]
    ELSE IF Len(audio) = 1 THEN [mode |-> "single", data |-> audio[1]]
    ELSE IF FormatLower(format) \notin SUPPORTED_FORMATS
         THEN [mode |-> "ValueError", data |-> <<>>]
         ELSE IF ~has_pydub \/ pydub_fails
              THEN [mode |-> "concat", data |-> ConcatReversed(audio)]
              ELSE [mode |-> "pydub", data |-> ConcatReversed(audio)]

\* combine_audio_chunks checking the format before the one-element case
combine_audio_chunks_format_first(audio, format, has_pydub, pydub_fails) ==
    IF audio = <<>> THEN [mode |-> "ValueError", data |-> <<>>]
    ELSE IF FormatLower(format) \notin SUPPORTED_FORMATS
         THEN [mode |-> "ValueError", data |-> <<>>]
         ELSE IF Len(audio) = 1 THEN [mode |-> "single", data |-> audio[1]]
         ELSE IF ~has_pydub \/ pydub_fails
              THEN [mode |-> "concat", data |-> Concat(audio)]
              ELSE [mode |-> "pydub", data |-> Concat(audio)]

\* combine_audio_chunks without its check for an empty list
combine_audio_chunks_unchecked(audio, format, has_pydub, pydub_fails) ==
    IF Len(audio) = 1 THEN [mode |-> "single", data |-> audio[1]]
    ELSE IF FormatLower(format) \notin SUPPORTED_FORMATS
         THEN [mode |-> "ValueError", data |-> <<>>]
         ELSE IF ~has_pydub \/ pydub_fails
              THEN [mode |-> "concat", data |-> Concat(audio)]
              ELSE [mode |-> "pydub", data |-> Concat(audio)]

\* combine_audio_chunks: a ValueError for an empty list; the element of a
\* one-element list; otherwise a ValueError for an unsupported format, the
\* byte concatenation without pydub or when pydub fails, and with pydub the
\* export of the decoded segments appended in list order (its data stands for
\* the segments exported, its mode for the encoding)
combine_audio_chunks(audio, format, has_pydub, pydub_fails) ==
    IF audio = <<>> THEN [mode |-> "ValueError", data |-> <<>>]
    ELSE IF Len(audio) = 1 THEN [mode |-> "single", data |-> audio[1]]
    ELSE IF FormatLower(format) \notin SUPPORTED_FORMATS
         THEN [mode |-> "ValueError", data |-> <<>>]
         ELSE IF ~has_pydub \/ pydub_fails
              THEN [mode |-> "concat", data |-> Concat(audio)]
              ELSE [mode |-> "pydub", data |-> Concat(audio)]

----------------------------------------------------------------------------
(* Spec: the service. One operation runs at a time from "idle"; the voice  *)
(* registry is changed by reload_config, add_voice and remove_voice at any *)
(* moment.                                                                 *)

\* the texts handed to text_to_speech
ServiceTexts == UNION { [1..k -> {"d", " "}] : k \in 0..(max_text_length + 1) }

NoResolved == [voice_id |-> "", model_id |-> "", voice_settings |-> ""]

IdleCall ==
    /\ attempt = 0
    /\ in_flight = FALSE
    /\ outcomes = <<>>
    /\ sleeps = 0
    /\ delay = 0
    /\ retry_after_hdr = NoHeader
    /\ calls = 0
    /\ reports = 0

IdleRequest ==
    /\ voice_name = ""
    /\ output_format = ""
    /\ resolved = NoResolved
    /\ idx = 0
    /\ audio_chunks = <<>>
    /\ pauses = 0
    /\ result = NoResult
    /\ metadata = NoResult

\* the handler has not run yet; the client __init__ made is open
IdleLifespan ==
    /\ lifespan = "start"
    /\ client_closed = FALSE
    /\ aclose_calls = 0

Init ==
    /\ pc = "idle"
    /\ op = "none"
    /\ text = <<>>
    /\ chunk_size = default_chunk_size
    /\ chunks = <<>>
    /\ voices = DefaultRegistry
    /\ max_retries \in 1..MaxRetries
    /\ IdleLifespan
    /\ IdleCall
    /\ IdleRequest

(* ---- the registry ---- *)

reload_config ==
    /\ voices' \in Registries
    /\ voices' # voices
    /\ UNCHANGED <<chunkVars, pc, op, max_retries, lifeVars, callVars,
                   reqVars>>

add_voice ==
    /\ \E name \in VoiceNames, data \in VoiceConfigs :
         /\ voices' = [n \in DOMAIN voices \cup {name} |->
                          IF n = name THEN data ELSE voices[n]]
         /\ voices' # voices
    /\ UNCHANGED <<chunkVars, pc, op, max_retries, lifeVars, callVars,
                   reqVars>>

remove_voice ==
    /\ \E name \in DOMAIN voices :
         voices' = [n \in DOMAIN voices \ {name} |-> voices[n]]
    /\ UNCHANGED <<chunkVars, pc, op, max_retries, lifeVars, callVars,
                   reqVars>>

(* ---- text_to_speech ---- *)

\* the call, made while the application serves: chunk_size = chunk_size or
\* settings.default_chunk_size
CallTextToSpeech ==
    /\ pc = "idle"
    /\ lifespan = "serving"
    /\ \E t \in ServiceTexts, v \in VoiceNames :
         /\ text' = t
         /\ voice_name' = v
    /\ chunk_size' = default_chunk_size
    /\ op' = "text_to_speech"
    /\ pc' = "tts_check_voice"
    /\ UNCHANGED <<chunks, voices, max_retries, lifeVars, callVars,
                   output_format, resolved, idx, audio_chunks, pauses,
                   result, metadata>>

\* if not voice_manager.is_voice_available(voice_name): raise ValidationException
TtsCheckVoice ==
    /\ pc = "tts_check_voice"
    /\ IF is_voice_available(voice_name)
       THEN /\ pc' = "tts_voice_id"
            /\ UNCHANGED result
       ELSE /\ pc' = "done"
            /\ result' = Raised(TtsExcept(ValidationException), "voice_check")
    /\ UNCHANGED <<chunkVars, op, voices, max_retries, lifeVars, callVars,
                   voice_name, metadata, output_format, resolved, idx,
                   audio_chunks, pauses>>

\* voice_id = voice_manager.get_voice_id(voice_name)
TtsGetVoiceId ==
    /\ pc = "tts_voice_id"
    /\ IF voice_name \in DOMAIN voices
       THEN /\ resolved' = [resolved EXCEPT !.voice_id = voices[voice_name].voice_id]
            /\ pc' = "tts_voice_model"
            /\ UNCHANGED result
       ELSE /\ pc' = "done"
            /\ result' = Raised(TtsExcept(VoiceNotFoundException), "get_voice_id")
            /\ UNCHANGED resolved
    /\ UNCHANGED <<chunkVars, op, voices, max_retries, lifeVars, callVars,
                   voice_name, metadata, output_format, idx, audio_chunks,
                   pauses>>

\* model_id = voice_manager.get_voice_model(voice_name)
TtsGetVoiceModel ==
    /\ pc = "tts_voice_model"
    /\ IF voice_name \in DOMAIN voices
       THEN /\ resolved' = [resolved EXCEPT !.model_id = voices[voice_name].model]
            /\ pc' = "tts_voice_settings"
            /\ UNCHANGED result
       ELSE /\ pc' = "done"
            /\ result' = Raised(TtsExcept(VoiceNotFoundException), "get_voice_model")
            /\ UNCHANGED resolved
    /\ UNCHANGED <<chunkVars, op, voices, max_retries, lifeVars, callVars,
                   voice_name, metadata, output_format, idx, audio_chunks,
                   pauses>>

\* voice_settings = {**voice_manager.get_voice_settings(voice_name), ...}
TtsGetVoiceSettings ==
    /\ pc = "tts_voice_settings"
    /\ IF voice_name \in DOMAIN voices
       THEN /\ resolved' = [resolved EXCEPT
                               !.voice_settings = voices[voice_name].settings]
            /\ pc' = "tts_validate"
            /\ UNCHANGED result
       ELSE /\ pc' = "done"
            /\ result' = Raised(TtsExcept(VoiceNotFoundException),
                                "get_voice_settings")
            /\ UNCHANGED resolved
    /\ UNCHANGED <<chunkVars, op, voices, max_retries, lifeVars, callVars,
                   voice_name, metadata, output_format, idx, audio_chunks,
                   pauses>>

\* the text length check, then chunks = chunk_text(text, chunk_size)
TtsValidateText ==
    /\ pc = "tts_validate"
    /\ IF TextTooLong(text)
       THEN /\ pc' = "done"
            /\ result' = Raised(TtsExcept(ValidationException), "text_length")
            /\ UNCHANGED <<chunks, audio_chunks>>
       ELSE /\ chunks' = chunk_text(text, chunk_size)
            /\ audio_chunks' = <<>>
            /\ pc' = "tts_loop"
            /\ UNCHANGED result
    /\ UNCHANGED <<text, chunk_size, op, voices, max_retries, lifeVars,
                   callVars, voice_name, metadata, output_format, resolved,
                   idx, pauses>>

\* for i, chunk in enumerate(chunks, start=1): the next chunk's call of
\* _generate_chunk begins with attempt 1; after the last chunk the loop ends.
\* The locals of the call that returned are gone
TtsLoop ==
    /\ pc = "tts_loop"
    /\ IF idx < Len(chunks)
       THEN /\ idx' = idx + 1
            /\ attempt' = 1
            /\ outcomes' = <<>>
            /\ sleeps' = 0
            /\ reports' = 0
            /\ pc' = "gc_send"
       ELSE /\ attempt' = 0
            /\ outcomes' = <<>>
            /\ sleeps' = 0
            /\ reports' = 0
            /\ pc' = "tts_combine"
            /\ UNCHANGED idx
    /\ UNCHANGED <<chunkVars, op, voices, max_retries, lifeVars, in_flight,
                   delay, retry_after_hdr, calls, voice_name, metadata,
                   output_format, resolved, audio_chunks, pauses, result>>

\* AfterChunk pausing after the last chunk as well
AfterChunkAlwaysPauses == "tts_chunk_delay"

\* where the loop body goes once audio_chunks.append(chunk_audio) is done:
\* `if i < len(chunks): await asyncio.sleep(self.chunk_delay)`
AfterChunk == IF idx < Len(chunks) THEN "tts_chunk_delay" ELSE "tts_loop"

\* response = await self.client.post(...): the request leaves
GenerateChunkSend ==
    /\ pc = "gc_send"
    /\ in_flight' = TRUE
    /\ calls' = calls + 1
    /\ pc' = "gc_wait"
    /\ UNCHANGED <<chunkVars, op, voices, max_retries, lifeVars, attempt,
                   outcomes, sleeps, delay, retry_after_hdr, reports,
                   reqVars>>

\* the rest of one pass of the retry loop of _generate_chunk: the response or
\* the exception of the request, and what the loop does with it
GenerateChunkResponse ==
    /\ pc = "gc_wait"
    /\ \E o \in Outcomes :
         /\ outcomes' = Append(outcomes, o)
         /\ in_flight' = FALSE
         /\ reports' = IF o.kind = "response" THEN reports + 1 ELSE reports
         /\ IF o.kind = "response" /\ o.status = 200
            THEN /\ audio_chunks' = Append(audio_chunks, o.content)
                 /\ pc' = AfterChunk
                 /\ UNCHANGED <<sleeps, delay, retry_after_hdr, result>>
            ELSE IF \/ o.kind = "response" /\ ShouldRetry(o.status, attempt)
                    \/ o.kind # "response" /\ MayRetry(attempt)
                 THEN /\ \E retry_after \in HeadersOf(o) :
                         \E jitter \in JittersOf(retry_after) :
                            /\ delay' = BackoffDelay(attempt, retry_after,
                                                      jitter)
                            /\ retry_after_hdr' = retry_after
                      /\ sleeps' = sleeps + 1
                      /\ pc' = "gc_backoff"
                      /\ UNCHANGED <<audio_chunks, result>>
                 ELSE /\ result' =
                           Raised(TtsExcept(
                               IF o.kind = "response" THEN StatusError(o.status)
                               ELSE IF o.kind = "timeout" THEN TimeoutError
                               ELSE NetworkError), o.kind)
                      /\ pc' = "done"
                      /\ UNCHANGED <<audio_chunks, sleeps, delay,
                                     retry_after_hdr>>
    /\ UNCHANGED <<chunkVars, op, voices, max_retries, lifeVars, attempt,
                   calls, voice_name, metadata, output_format, resolved, idx,
                   pauses>>

\* GenerateChunkWake giving the chunk up for the next one after the sleep
GenerateChunkWakeAbandons ==
    /\ pc = "gc_backoff"
    /\ delay' = 0
    /\ retry_after_hdr' = NoHeader
    /\ pc' = "tts_loop"
    /\ UNCHANGED <<chunkVars, op, voices, max_retries, lifeVars, attempt,
                   in_flight, outcomes, sleeps, calls, reports, reqVars>>

\* _sleep_backoff returns and the loop continues with the next attempt; a
\* loop that has run out of attempts ends and the function returns None
GenerateChunkWake ==
    /\ pc = "gc_backoff"
    /\ delay' = 0
    /\ retry_after_hdr' = NoHeader
    /\ IF attempt < max_retries
       THEN /\ attempt' = attempt + 1
            /\ pc' = "gc_send"
            /\ UNCHANGED audio_chunks
       ELSE /\ audio_chunks' = Append(audio_chunks, None)
            /\ pc' = AfterChunk
            /\ UNCHANGED attempt
    /\ UNCHANGED <<chunkVars, op, voices, max_retries, lifeVars, in_flight,
                   outcomes, sleeps, calls, reports, voice_name, metadata,
                   output_format, resolved, idx, pauses, result>>

\* if i < len(chunks): await asyncio.sleep(self.chunk_delay)
TtsChunkDelay ==
    /\ pc = "tts_chunk_delay"
    /\ pauses' = pauses + 1
    /\ attempt' = 0
    /\ outcomes' = <<>>
    /\ sleeps' = 0
    /\ reports' = 0
    /\ pc' = "tts_loop"
    /\ UNCHANGED <<chunkVars, op, voices, max_retries, lifeVars, in_flight,
                   delay, retry_after_hdr, calls, voice_name, metadata,
                   output_format, resolved, idx, audio_chunks, result>>

\* if audio_chunks: return combine_audio_chunks(audio_chunks, output_format)
\* else: raise. The output_format of the request is drawn here, where the
\* combiner reads it
TtsCombine ==
    /\ pc = "tts_combine"
    /\ \E format \in Formats, has_pydub \in BOOLEAN, pydub_fails \in BOOLEAN :
         /\ output_format' = format
         /\ IF audio_chunks # <<>>
            THEN LET combined == combine_audio_chunks(audio_chunks, format,
                                                      has_pydub, pydub_fails)
                 IN  result' = IF combined.mode = "ValueError"
                               THEN Raised(TtsExcept(
                                        TTSException("ValueError", "", FALSE)),
                                        "combine")
                               ELSE Returned(combined)
            ELSE result' = Raised(TtsExcept(ElevenLabsException(0, FALSE)),
                                  "no_audio")
    /\ pc' = "done"
    /\ UNCHANGED <<chunkVars, op, voices, max_retries, lifeVars, callVars,
                   voice_name, metadata, resolved, idx, audio_chunks, pauses>>

(* ---- app/api/routes_tts.py: generate_tts ---- *)

\* the route after `audio_data = await tts_service.text_to_speech(...)` has
\* returned: empty audio and audio validate_audio_data rejects (a property
\* of the bytes, which the model does not hold) raise; otherwise
\* voice_manager.get_voice_config(request.voice) is read for the metadata,
\* model_used = voice_config["model"]
GenerateTtsRespond ==
    /\ pc = "done"
    /\ op = "text_to_speech"
    /\ result.kind = "returned"
    /\ metadata = NoResult
    /\ LET audio_data == result.value.data
       IN  IF audio_data = <<>>
           THEN metadata' = Raised(TTSException("TTSException",
                                       "GENERATION_FAILED", FALSE),
                                   "not_audio_data")
           ELSE \E valid \in BOOLEAN :
                   metadata' =
                      IF ~valid
                      THEN Raised(TTSException("TTSException",
                                      "INVALID_AUDIO", FALSE),
                                  "validate_audio_data")
                      ELSE IF voice_name \notin DOMAIN voices
                      THEN Raised(VoiceNotFoundException, "get_voice_config")
                      ELSE Returned([model_used |-> voices[voice_name].model])
    /\ UNCHANGED <<chunkVars, pc, op, voices, max_retries, lifeVars,
                   callVars, voice_name, output_format, resolved, idx,
                   audio_chunks, pauses, result>>

(* ---- get_voices ---- *)

CallGetVoices ==
    /\ pc = "idle"
    /\ lifespan = "serving"
    /\ op' = "get_voices"
    /\ attempt' = 1
    /\ pc' = "gv_send"
    /\ UNCHANGED <<chunkVars, voices, max_retries, lifeVars, in_flight,
                   outcomes, sleeps, delay, retry_after_hdr, calls, reports,
                   reqVars>>

\* response = await self.client.get(...): the request leaves
GetVoicesSend ==
    /\ pc = "gv_send"
    /\ in_flight' = TRUE
    /\ calls' = calls + 1
    /\ pc' = "gv_wait"
    /\ UNCHANGED <<chunkVars, op, voices, max_retries, lifeVars, attempt,
                   outcomes, sleeps, delay, retry_after_hdr, reports,
                   reqVars>>

\* the rest of one pass of the retry loop of get_voices
GetVoicesResponse ==
    /\ pc = "gv_wait"
    /\ \E o \in Outcomes :
         /\ outcomes' = Append(outcomes, o)
         /\ in_flight' = FALSE
         /\ reports' = IF o.kind = "response" THEN reports + 1 ELSE reports
         /\ IF o.kind = "response" /\ o.status = 200
            THEN /\ result' = Returned([mode |-> "json", data |-> o.content])
                 /\ pc' = "done"
                 /\ UNCHANGED <<sleeps, delay, retry_after_hdr>>
            ELSE IF \/ o.kind = "response" /\ ShouldRetry(o.status, attempt)
                    \/ o.kind # "response" /\ MayRetry(attempt)
                 THEN /\ \E retry_after \in HeadersOf(o) :
                         \E jitter \in JittersOf(retry_after) :
                            /\ delay' = BackoffDelay(attempt, retry_after,
                                                      jitter)
                            /\ retry_after_hdr' = retry_after
                      /\ sleeps' = sleeps + 1
                      /\ pc' = "gv_backoff"
                      /\ UNCHANGED result
                 ELSE /\ result' =
                           Raised(IF o.kind = "response" THEN StatusError(o.status)
                                  ELSE IF o.kind = "timeout" THEN TimeoutError
                                  ELSE NetworkError, o.kind)
                      /\ pc' = "done"
                      /\ UNCHANGED <<sleeps, delay, retry_after_hdr>>
    /\ UNCHANGED <<chunkVars, op, voices, max_retries, lifeVars, attempt,
                   calls, voice_name, metadata, output_format, resolved, idx,
                   audio_chunks, pauses>>

\* _sleep_backoff returns and the loop continues with the next attempt; a
\* loop that has run out of attempts ends and the function returns None
GetVoicesWake ==
    /\ pc = "gv_backoff"
    /\ delay' = 0
    /\ retry_after_hdr' = NoHeader
    /\ IF attempt < max_retries
       THEN /\ attempt' = attempt + 1
            /\ pc' = "gv_send"
            /\ UNCHANGED result
       ELSE /\ result' = Returned([mode |-> "json", data |-> None])
            /\ pc' = "done"
            /\ UNCHANGED attempt
    /\ UNCHANGED <<chunkVars, op, voices, max_retries, lifeVars, in_flight,
                   outcomes, sleeps, calls, reports, voice_name, metadata,
                   output_format, resolved, idx, audio_chunks, pauses>>

(* ---- app/main.py: lifespan ---- *)

\* what `await tts_service.aclose()` does: it returns, or it raises an
\* httpx.HTTPError, a RuntimeError, or an exception of another class
AcloseOutcomes == {"closed", "HTTPError", "RuntimeError", "OSError"}

\* the classes of `except (httpx.HTTPError, RuntimeError)`
AcloseCaught == {"HTTPError", "RuntimeError"}

\* the handler up to its yield: the application starts serving
LifespanStart ==
    /\ lifespan = "start"
    /\ lifespan' = "serving"
    /\ UNCHANGED <<chunkVars, pc, op, voices, max_retries, client_closed,
                   aclose_calls, callVars, reqVars>>

\* the server resumes the handler after the yield, when no request is being
\* served any more: the client is closed if it is still open
LifespanShutdown ==
    /\ lifespan = "serving"
    /\ pc = "idle"
    /\ IF ~client_closed
       THEN /\ lifespan' = "aclose"
            /\ aclose_calls' = aclose_calls + 1
       ELSE /\ lifespan' = "ended"
            /\ UNCHANGED aclose_calls
    /\ UNCHANGED <<chunkVars, pc, op, voices, max_retries, client_closed,
                   callVars, reqVars>>

\* `await tts_service.aclose()` is over: the handler ends, or the exception
\* no except clause catches leaves it
LifespanAclose ==
    /\ lifespan = "aclose"
    /\ \E o \in AcloseOutcomes :
         /\ client_closed' = (o = "closed")
         /\ lifespan' = IF o = "closed" \/ o \in AcloseCaught THEN "ended"
                         ELSE "raised"
    /\ UNCHANGED <<chunkVars, pc, op, voices, max_retries, aclose_calls,
                   callVars, reqVars>>

(* ---- the operation is over: the service is idle again ---- *)

Finish ==
    /\ pc = "done"
    /\ pc' = "idle"
    /\ op' = "none"
    /\ text' = <<>>
    /\ chunk_size' = default_chunk_size
    /\ chunks' = <<>>
    /\ attempt' = 0
    /\ in_flight' = FALSE
    /\ outcomes' = <<>>
    /\ sleeps' = 0
    /\ delay' = 0
    /\ retry_after_hdr' = NoHeader
    /\ calls' = 0
    /\ reports' = 0
    /\ voice_name' = ""
    /\ output_format' = ""
    /\ resolved' = NoResolved
    /\ idx' = 0
    /\ audio_chunks' = <<>>
    /\ pauses' = 0
    /\ result' = NoResult
    /\ metadata' = NoResult
    /\ UNCHANGED <<voices, max_retries, lifeVars>>

Next ==
    \/ reload_config
    \/ add_voice
    \/ remove_voice
    \/ CallTextToSpeech
    \/ TtsCheckVoice
    \/ TtsGetVoiceId
    \/ TtsGetVoiceModel
    \/ TtsGetVoiceSettings
    \/ TtsValidateText
    \/ TtsLoop
    \/ GenerateChunkSend
    \/ GenerateChunkResponse
    \/ GenerateChunkWake
    \/ TtsChunkDelay
    \/ TtsCombine
    \/ GenerateTtsRespond
    \/ CallGetVoices
    \/ GetVoicesSend
    \/ GetVoicesResponse
    \/ GetVoicesWake
    \/ LifespanStart
    \/ LifespanShutdown
    \/ LifespanAclose
    \/ Finish

Spec == Init /\ [][Next]_vars

----------------------------------------------------------------------------
(* SpecChunk: chunk_text applied to every text of at most MaxLen           *)
(* characters with every max_length in 1..MaxChunk.                        *)

Texts(n) == UNION { [1..k -> TextChars] : k \in 0..n }

InitChunk ==
    /\ text \in Texts(MaxLen)
    /\ chunk_size \in 1..MaxChunk
    /\ chunks = <<>>
    /\ pc = "chunk_start"
    /\ op = "chunk_text"
    /\ voices = DefaultRegistry
    /\ max_retries = MaxRetries
    /\ IdleLifespan
    /\ IdleCall
    /\ IdleRequest

CallChunkText ==
    /\ pc = "chunk_start"
    /\ chunks' = chunk_text(text, chunk_size)
    /\ pc' = "chunk_done"
    /\ UNCHANGED <<text, chunk_size, svcVars>>

NextChunk == CallChunkText

SpecChunk == InitChunk /\ [][NextChunk]_vars

----------------------------------------------------------------------------
(* SpecExample: chunk_text applied to a text of two sentences, the first   *)
(* of which begins with an abbreviation, with every max_length in          *)
(* 1..MaxWidth.                                                            *)

\* "Dr. Smith went home. He left."
ExampleText ==
    << "D", "r", ".", " ", "S", "m", "i", "t", "h", " ", "w", "e", "n",
       "t", " ", "h", "o", "m", "e", ".", " ", "H", "e", " ", "l", "e",
       "f", "t", "." >>

\* "Dr. Smith went home."
ExampleFirst ==
    << "D", "r", ".", " ", "S", "m", "i", "t", "h", " ", "w", "e", "n",
       "t", " ", "h", "o", "m", "e", "." >>

\* "He left."
ExampleSecond == << "H", "e", " ", "l", "e", "f", "t", "." >>

InitExample ==
    /\ text = ExampleText
    /\ chunk_size \in 1..MaxWidth
    /\ chunks = <<>>
    /\ pc = "chunk_start"
    /\ op = "chunk_text"
    /\ voices = DefaultRegistry
    /\ max_retries = MaxRetries
    /\ IdleLifespan
    /\ IdleCall
    /\ IdleRequest

SpecExample == InitExample /\ [][NextChunk]_vars

----------------------------------------------------------------------------
(* SpecCombine: combine_audio_chunks applied to every list of at most      *)
(* MaxAudio buffers with every format, with and without pydub.             *)

\* the formats handed to combine_audio_chunks: supported, supported in
\* upper case, unsupported
CombineFormats == Formats \cup {"MP3"}

AudioLists == UNION { [1..k -> Payloads] : k \in 0..MaxAudio }

\* raise ValueError(...)
ValueError == TTSException("ValueError", "", FALSE)

InitCombine ==
    /\ audio_chunks \in AudioLists
    /\ output_format \in CombineFormats
    /\ pc = "combine_start"
    /\ op = "combine_audio_chunks"
    /\ text = <<>>
    /\ chunk_size = default_chunk_size
    /\ chunks = <<>>
    /\ voices = DefaultRegistry
    /\ max_retries = MaxRetries
    /\ IdleLifespan
    /\ IdleCall
    /\ voice_name = ""
    /\ resolved = NoResolved
    /\ idx = 0
    /\ pauses = 0
    /\ result = NoResult
    /\ metadata = NoResult

CallCombine ==
    /\ pc = "combine_start"
    /\ \E has_pydub \in BOOLEAN, pydub_fails \in BOOLEAN :
         LET combined == combine_audio_chunks(audio_chunks, output_format,
                                              has_pydub, pydub_fails)
         IN  result' = IF combined.mode = "ValueError"
                       THEN Raised(ValueError, "combine_audio_chunks")
                       ELSE Returned(combined)
    /\ pc' = "combine_done"
    /\ UNCHANGED <<chunkVars, op, voices, max_retries, lifeVars, callVars,
                   voice_name, metadata, output_format, resolved, idx,
                   audio_chunks, pauses>>

NextCombine == CallCombine

SpecCombine == InitCombine /\ [][NextCombine]_vars

----------------------------------------------------------------------------
(* SpecSentences: split_sentences applied to every text of at most         *)
(* MaxSentence characters over letters of both cases, the period, the      *)
(* question mark, the space and the newline, and to a few longer texts.    *)

\* the characters the texts of SpecSentences are drawn from
SentenceChars == {"D", "r", ".", "?", " ", "\n"}

\* longer texts: abbreviations with internal dots, and the exclamation mark
SentenceExamples ==
    { <<"E", ".", "G", ".", " ", "r", ".", " ", "D">>,
      <<"i", ".", "e", ".", " ", "r", "!", " ", "D">>,
      <<"D", "!", " ", "M", "r", "s", ".", " ", "D", "?", " ", "r">>,
      <<"e", "t", "c", "!", " ", "e", "t", "c", ".", " ", "r">> }

SentenceTexts ==
    UNION { [1..k -> SentenceChars] : k \in 0..MaxSentence }
        \cup SentenceExamples

InitSentences ==
    /\ text \in SentenceTexts
    /\ chunk_size = default_chunk_size
    /\ chunks = <<>>
    /\ pc = "split_start"
    /\ op = "split_sentences"
    /\ voices = DefaultRegistry
    /\ max_retries = MaxRetries
    /\ IdleLifespan
    /\ IdleCall
    /\ IdleRequest

\* sentences = split_sentences(text); chunks holds the list returned
CallSplitSentences ==
    /\ pc = "split_start"
    /\ chunks' = split_sentences(text)
    /\ pc' = "split_done"
    /\ UNCHANGED <<text, chunk_size, svcVars>>

NextSentences == CallSplitSentences

SpecSentences == InitSentences /\ [][NextSentences]_vars

----------------------------------------------------------------------------
(* SpecBackoff: the pass of a retry loop that follows a failed attempt,    *)
(* for every attempt number in 1..max_retries with every max_retries in    *)
(* 1..MaxAttempt, every failure and every retry-after header: the loop     *)
(* sleeps in _sleep_backoff or raises.                                     *)

\* what an attempt that does not return receives
FailedOutcomes == { o \in Outcomes : ~(o.kind = "response" /\ o.status = 200) }

\* outcomes holds the failure of the pass
InitBackoff ==
    /\ pc = "backoff_start"
    /\ op = "_sleep_backoff"
    /\ max_retries \in 1..MaxAttempt
    /\ attempt \in 1..max_retries
    /\ \E o \in FailedOutcomes : outcomes = <<o>>
    /\ in_flight = FALSE
    /\ sleeps = 0
    /\ delay = 0
    /\ retry_after_hdr = NoHeader
    /\ calls = 0
    /\ reports = 0
    /\ text = <<>>
    /\ chunk_size = default_chunk_size
    /\ chunks = <<>>
    /\ voices = DefaultRegistry
    /\ IdleLifespan
    /\ IdleRequest

\* the branches of the retry loops that follow a failed attempt: with an
\* attempt left, `await self._sleep_backoff(attempt, retry_after)` (the
\* header of the response, nothing after a timeout or a network error);
\* otherwise the raise
CallSleepBackoff ==
    /\ pc = "backoff_start"
    /\ LET o == outcomes[1]
       IN  IF \/ o.kind = "response" /\ ShouldRetry(o.status, attempt)
              \/ o.kind # "response" /\ MayRetry(attempt)
           THEN /\ \E retry_after \in HeadersOf(o) :
                   \E jitter \in JittersOf(retry_after) :
                      /\ delay' = BackoffDelay(attempt, retry_after, jitter)
                      /\ retry_after_hdr' = retry_after
                /\ sleeps' = sleeps + 1
                /\ pc' = "backoff_sleep"
           ELSE /\ pc' = "backoff_raise"
                /\ UNCHANGED <<sleeps, delay, retry_after_hdr>>
    /\ UNCHANGED <<chunkVars, op, voices, max_retries, lifeVars, attempt,
                   in_flight, outcomes, calls, reports, reqVars>>

NextBackoff == CallSleepBackoff

SpecBackoff == InitBackoff /\ [][NextBackoff]_vars

----------------------------------------------------------------------------
(* Properties of the chunker, checked under SpecChunk.                     *)

\* every whitespace character removed
RECURSIVE Squash(_)
Squash(s) ==
    IF s = <<>> THEN <<>>
    ELSE IF IsSpace(Head(s)) THEN Squash(Tail(s))
         ELSE <<Head(s)>> \o Squash(Tail(s))

\* C1: every chunk chunk_text returns is at most max_length long. With
\* max_length >= 1 no chunk is exempt: a chunk longer than max_length holds
\* several words, or one word that force_split_text can cut.
C1_ChunkLengthBound ==
    pc = "chunk_done" =>
        \A k \in 1..Len(chunks) : Len(chunks[k]) <= chunk_size

\* C2: the chunks, concatenated in output order and with whitespace ignored,
\* are the text with whitespace ignored: nothing is dropped, duplicated or
\* reordered.
C2_ChunksReproduceText ==
    pc = "chunk_done" => Squash(Concat(chunks)) = Squash(text)

\* C13: every chunk chunk_text returns, for every text (the empty and the
\* whitespace-only ones included) and every max_length, is a non-empty string
\* that is not whitespace-only.
C13_ChunksNotBlank ==
    pc = "chunk_done" =>
        \A k \in 1..Len(chunks) : Strip(chunks[k]) # <<>>

\* C14: for every text and max_length with len(text) <= max_length,
\* chunk_text returns exactly the one-element sequence of the stripped text.
C14_ShortTextIsOneChunk ==
    (pc = "chunk_done" /\ Len(text) <= chunk_size) =>
        chunks = <<Strip(text)>>

\* C14, amended: for every text with len(text) <= max_length that holds a
\* character other than whitespace, chunk_text returns exactly the
\* one-element sequence of the stripped text; for the empty text it returns
\* the empty sequence.
C14_ShortNonBlankTextIsOneChunk ==
    (pc = "chunk_done" /\ Len(text) <= chunk_size) =>
        /\ Strip(text) # <<>> => chunks = <<Strip(text)>>
        /\ text = <<>> => chunks = <<>>

C14_Witness ==
    /\ pc = "chunk_done"
    /\ chunk_size = 3
    /\ text = <<" ", "d", " ">>
    /\ chunks = << <<"d">> >>

\* C15: chunk_text("Dr. Smith went home. He left.", 1000) returns the two
\* chunks "Dr. Smith went home." and "He left.".
C15_ExampleAtThousand ==
    (pc = "chunk_done" /\ text = ExampleText /\ chunk_size = 1000) =>
        chunks = <<ExampleFirst, ExampleSecond>>

\* C15, amended: split_sentences("Dr. Smith went home. He left.") returns
\* the two sentences "Dr. Smith went home." and "He left." (the period after
\* "Dr" ends no sentence, the one after "home" does); chunk_text returns them
\* as its two chunks for every max_length from 20 to 28, and for every
\* max_length from 29 on, 1000 included, it returns the whole text as one
\* chunk.
C15_ExampleSentences ==
    (pc = "chunk_done" /\ text = ExampleText) =>
        /\ split_sentences(text) = <<ExampleFirst, ExampleSecond>>
        /\ chunk_size \in Len(ExampleFirst)..(Len(ExampleText) - 1) =>
              chunks = <<ExampleFirst, ExampleSecond>>
        /\ chunk_size >= Len(ExampleText) => chunks = <<ExampleText>>

C15_Witness ==
    /\ pc = "chunk_done"
    /\ text = ExampleText
    /\ chunk_size = 25
    /\ chunks = <<ExampleFirst, ExampleSecond>>

----------------------------------------------------------------------------
(* Properties of the upstream client and of text_to_speech, checked under  *)
(* Spec.                                                                   *)

UpstreamOps == {"text_to_speech", "get_voices"}

\* the attempts of the running upstream call so far, and the last of them
Attempted == op \in UpstreamOps /\ outcomes # <<>>
LastOutcome == outcomes[Len(outcomes)]

\* the upstream call is still in its retry loop
CallRunning ==
    /\ pc \in {"gc_send", "gc_wait", "gc_backoff",
               "gv_send", "gv_wait", "gv_backoff"}
    /\ result = NoResult

\* the operation has raised
HasRaised == pc = "done" /\ result.kind = "raised"

AllStatus(st) ==
    \A k \in 1..Len(outcomes) :
        outcomes[k].kind = "response" /\ outcomes[k].status = st

\* C3: when every attempt of one _generate_chunk call receives HTTP 500, the
\* call goes on while fewer than max_retries attempts were made, and after
\* attempt max_retries it raises an error of kind UPSTREAM_ERROR: exactly
\* max_retries attempts, never fewer, never more.
C3_RetryExhaustion ==
    (op = "text_to_speech" /\ outcomes # <<>> /\ AllStatus(500)) =>
        /\ Len(outcomes) <= max_retries
        /\ attempt = Len(outcomes) \/ attempt = Len(outcomes) + 1
        /\ Len(outcomes) < max_retries => CallRunning
        /\ Len(outcomes) = max_retries =>
              /\ HasRaised
              /\ attempt = max_retries
              /\ result.exc.error_code = "UPSTREAM_ERROR"

C3_Witness ==
    /\ op = "text_to_speech"
    /\ max_retries = 3
    /\ Len(outcomes) = 3
    /\ AllStatus(500)
    /\ HasRaised
    /\ result.exc.error_code = "UPSTREAM_ERROR"

\* the conditions section 4.2 of the specification calls retryable: HTTP 429
\* or 5xx, a timeout, a connection error
SpecRetryable(o) ==
    \/ o.kind \in {"timeout", "network"}
    \/ o.kind = "response" /\ (o.status = 429 \/ o.status \in 500..599)

\* C4: an upstream call whose responses are k retryable failures
\* (k < max_retries) followed by HTTP 200 gets past each of the failures,
\* succeeds on attempt k + 1, returns the content of the 200 response and
\* has slept exactly k backoffs.
C4_RetryThenSucceed ==
    (Attempted /\ \A k \in 1..(Len(outcomes) - 1) : SpecRetryable(outcomes[k])) =>
        /\ (SpecRetryable(LastOutcome) /\ Len(outcomes) < max_retries)
              => CallRunning
        /\ (LastOutcome.kind = "response" /\ LastOutcome.status = 200) =>
              /\ attempt = Len(outcomes)
              /\ sleeps = Len(outcomes) - 1
              /\ IF op = "get_voices"
                 THEN /\ pc = "done"
                      /\ result = Returned([mode |-> "json",
                                            data |-> LastOutcome.content])
                 ELSE /\ pc \in {"tts_chunk_delay", "tts_loop"}
                      /\ Len(audio_chunks) = idx
                      /\ audio_chunks[idx] = LastOutcome.content

\* C5: a response with status 429 or any 5xx status, received on an attempt
\* that is not the last one, is retried: the call goes on.
C5_EveryRetryableStatusRetried ==
    ( /\ Attempted
      /\ LastOutcome.kind = "response"
      /\ (LastOutcome.status = 429 \/ LastOutcome.status \in 500..599)
      /\ Len(outcomes) < max_retries ) => CallRunning

\* C6: a response with a 4xx status other than 429 ends the call on that
\* attempt: no backoff sleep follows it, no further attempt is made, and the
\* error raised is AUTH_ERROR for 401, FORBIDDEN for 403 and UPSTREAM_ERROR
\* for any other such status.
C6_ClientErrorEndsCall ==
    ( /\ Attempted
      /\ LastOutcome.kind = "response"
      /\ LastOutcome.status \in 400..499
      /\ LastOutcome.status # 429 ) =>
        /\ HasRaised
        /\ ~in_flight
        /\ attempt = Len(outcomes)
        /\ calls >= Len(outcomes)
        /\ sleeps = Len(outcomes) - 1
        /\ result.exc.error_code =
              IF LastOutcome.status = 401 THEN "AUTH_ERROR"
              ELSE IF LastOutcome.status = 403 THEN "FORBIDDEN"
              ELSE "UPSTREAM_ERROR"

C6_Witness ==
    /\ op = "text_to_speech"
    /\ Len(outcomes) = 2
    /\ LastOutcome = Response(403, <<>>)
    /\ HasRaised
    /\ result.exc.error_code = "FORBIDDEN"
    /\ sleeps = 1

\* C7: every error raised with kind UPSTREAM_RATE_LIMIT carries
\* retryable = TRUE.
C7_RateLimitIsRetryable ==
    (HasRaised /\ result.exc.error_code = "UPSTREAM_RATE_LIMIT") =>
        result.exc.retryable

\* C8: when the last of the max_retries attempts of an upstream call ends
\* in a timeout or a network error, the call raises an upstream error whose
\* retryable flag is TRUE.
C8_ExhaustedTimeoutIsRetryable ==
    ( /\ Attempted
      /\ Len(outcomes) = max_retries
      /\ LastOutcome.kind \in {"timeout", "network"} ) =>
        /\ HasRaised
        /\ result.exc.type = "ElevenLabsException"
        /\ result.exc.retryable

C8_Witness ==
    /\ op = "text_to_speech"
    /\ max_retries = 3
    /\ Len(outcomes) = 3
    /\ LastOutcome = TimeoutException
    /\ HasRaised
    /\ result.exc.retryable

\* text_to_speech found voice_name missing from the registry at its
\* availability check
VoiceRejected ==
    op = "text_to_speech" /\ HasRaised /\ result.site = "voice_check"

\* C9: text_to_speech called with a voice name that is not in the registry
\* fails with an error of kind VOICE_NOT_FOUND.
C9_UnknownVoiceIsVoiceNotFound ==
    VoiceRejected => result.exc.error_code = "VOICE_NOT_FOUND"

\* C9, amended: text_to_speech called with a voice name that is not in the
\* registry when its availability check runs fails with a
\* ValidationException, an error of kind INVALID_INPUT.
C9_UnknownVoiceIsInvalidInput ==
    VoiceRejected =>
        /\ result.exc.type = "ValidationException"
        /\ result.exc.error_code = "INVALID_INPUT"

C9_Witness ==
    /\ VoiceRejected
    /\ voice_name \notin DOMAIN voices
    /\ result.exc.error_code = "INVALID_INPUT"

\* C10: when text_to_speech is rejected by its own input checks (the voice is
\* not in the registry, or the text is longer than max_text_length) no
\* upstream request has been issued: both checks are over before the first
\* chunk is sent, and a text that is too long never reaches the provider.
C10_NoUpstreamCallBeforeChecks ==
    op = "text_to_speech" =>
        /\ (HasRaised /\ result.exc.type = "ValidationException") => calls = 0
        /\ Len(text) > max_text_length => calls = 0
        /\ pc \in {"tts_check_voice", "tts_voice_id", "tts_voice_model",
                   "tts_voice_settings", "tts_validate"} => calls = 0

C10_Witness ==
    /\ op = "text_to_speech"
    /\ HasRaised
    /\ result.site = "text_length"
    /\ Len(text) = max_text_length + 1
    /\ result.exc.error_code = "INVALID_INPUT"
    /\ calls = 0

VoiceSites == {"voice_check", "get_voice_id", "get_voice_model",
               "get_voice_settings"}

\* text_to_speech has resolved its voice and is past its text length check
PastValidation ==
    /\ op = "text_to_speech"
    /\ pc \in {"tts_loop", "gc_send", "gc_wait", "gc_backoff",
               "tts_chunk_delay", "tts_combine", "done"}
    /\ ~(result.kind = "raised" /\ result.site \in VoiceSites)

\* C11: with a voice the registry knows, text_to_speech accepts a text of
\* length exactly max_text_length (no length error; the text is handed to
\* chunk_text) and rejects a text of length max_text_length + 1 with a
\* ValidationException, an error of kind INVALID_INPUT.
C11_TextLengthBoundary ==
    PastValidation =>
        /\ Len(text) <= max_text_length =>
              /\ ~(result.kind = "raised" /\ result.site = "text_length")
              /\ chunks = chunk_text(text, chunk_size)
        /\ Len(text) > max_text_length =>
              /\ HasRaised
              /\ result.site = "text_length"
              /\ result.exc.type = "ValidationException"
              /\ result.exc.error_code = "INVALID_INPUT"

C11_Witness ==
    /\ op = "text_to_speech"
    /\ pc = "tts_loop"
    /\ Len(text) = max_text_length
    /\ chunks = chunk_text(text, chunk_size)
    /\ chunks # <<>>
    /\ idx = 0
    /\ result = NoResult

\* the response the running call of _generate_chunk has just received
Is200(o) == o.kind = "response" /\ o.status = 200

\* C12: in text_to_speech the list audio_chunks grows only when the call for
\* chunk idx receives its 200 response, by that response's content and at
\* position idx, whatever retries came before; the combiner is handed one
\* audio per chunk, in chunk order, and what text_to_speech returns is their
\* concatenation in that order (the one element itself for one chunk, the
\* byte concatenation in the degraded mode).
C12_AudioInChunkOrder ==
    [][ (op = "text_to_speech" /\ op' = "text_to_speech") =>
          /\ audio_chunks' # audio_chunks =>
                /\ pc = "gc_wait"
                /\ Is200(outcomes'[Len(outcomes')])
                /\ audio_chunks' =
                      Append(audio_chunks, outcomes'[Len(outcomes')].content)
                /\ Len(audio_chunks') = idx
          /\ (result'.kind = "returned" /\ result.kind # "returned") =>
                /\ pc = "tts_combine"
                /\ Len(audio_chunks) = Len(chunks)
                /\ result'.value.data = Concat(audio_chunks)
                /\ Len(audio_chunks) = 1 <=> result'.value.mode = "single"
      ]_vars

C12_Witness ==
    /\ op = "text_to_speech"
    /\ pc = "done"
    /\ result.kind = "returned"
    /\ result.value.mode = "concat"
    /\ Len(chunks) = 2
    /\ audio_chunks = << <<"a">>, <<"b">> >>
    /\ result.value.data = <<"a", "b">>
    /\ calls > 2

\* what the three lookups of text_to_speech give when they all read the
\* configuration c
DescriptorOf(c) ==
    [voice_id |-> c.voice_id, model_id |-> c.model,
     voice_settings |-> c.settings]

\* the four registry reads of text_to_speech are over
ResolutionOver == (op = "text_to_speech" /\ pc = "tts_validate") \/ PastValidation

\* C16: however reload_config, add_voice and remove_voice interleave with
\* the availability check and the three lookups of text_to_speech, the
\* request sees one version of the registry: a voice found available is not
\* reported missing by a lookup that follows, and the voice id, model id and
\* settings the request goes on with are those of one configuration.
C16_ConsistentVoiceResolution ==
    op = "text_to_speech" =>
        /\ ~(result.kind = "raised" /\
               result.site \in {"get_voice_id", "get_voice_model",
                                "get_voice_settings"})
        /\ ResolutionOver =>
              \E c \in VoiceConfigs : resolved = DescriptorOf(c)

\* the requests the running call of _generate_chunk has issued so far
IssuedInCall == IF pc = "gc_send" THEN attempt - 1 ELSE attempt

\* C20: within one text_to_speech the upstream calls run one after another
\* in chunk order: while the call for chunk idx is in its retry loop (a
\* request out, a backoff sleep, or about to send) every chunk before idx
\* has returned its audio and no later chunk has been started, and at most
\* one request is awaiting its response: the requests the call has issued
\* are its responses received, plus one exactly while it waits.
C20_SequentialChunkCalls ==
    op = "text_to_speech" =>
        /\ pc \in {"gc_send", "gc_wait", "gc_backoff"} =>
              /\ idx \in 1..Len(chunks)
              /\ Len(audio_chunks) = idx - 1
              /\ \A k \in 1..Len(audio_chunks) : audio_chunks[k] \in Payloads
              /\ attempt \in 1..max_retries
              /\ IssuedInCall - Len(outcomes) = IF in_flight THEN 1 ELSE 0
        /\ in_flight <=> pc = "gc_wait"
        /\ pc \in {"tts_chunk_delay", "tts_combine"} =>
              Len(audio_chunks) = idx
        /\ calls >= Len(audio_chunks)

C20_Witness ==
    /\ op = "text_to_speech"
    /\ pc = "gc_wait"
    /\ in_flight
    /\ idx = 2
    /\ attempt = 2
    /\ Len(outcomes) = 1
    /\ Len(audio_chunks) = 1
    /\ calls >= 3

\* C19: when the lifespan handler is resumed for shutdown it closes the
\* client: tts_service.aclose() is called only after the yield, it has been
\* called once when the handler is over (the client was open), and no
\* failure of the close makes the handler raise.
C19_ClientClosedOnShutdown ==
    /\ aclose_calls > 0 => lifespan \in {"aclose", "ended", "raised"}
    /\ lifespan \in {"ended", "raised"} => aclose_calls = 1
    /\ lifespan # "raised"

\* C21: in a text_to_speech of n chunks that all succeed exactly n - 1
\* inter-chunk delays are slept: delay i is slept when chunk i has returned
\* its audio and before the first attempt of chunk i + 1, only for i < n,
\* and none after the last chunk; a one-chunk generation sleeps none.
C21_PacingDelays ==
    op = "text_to_speech" =>
        /\ pc \in {"gc_send", "gc_wait", "gc_backoff"} => pauses = idx - 1
        /\ pc = "tts_chunk_delay" =>
              /\ idx < Len(chunks)
              /\ Len(audio_chunks) = idx
              /\ pauses = idx - 1
        /\ pc = "tts_loop" =>
              pauses = IF idx < Len(chunks) \/ idx = 0 THEN idx ELSE idx - 1
        /\ result.kind = "returned" =>
              /\ Len(chunks) >= 1
              /\ pauses = Len(chunks) - 1

C21_Witness ==
    /\ op = "text_to_speech"
    /\ pc = "done"
    /\ result.kind = "returned"
    /\ Len(chunks) = 2
    /\ Len(audio_chunks) = 2
    /\ pauses = 1

\* the upstream call of the running operation is over: it returned a value
\* or raised
CallOver ==
    \/ HasRaised /\ result.site \in {"response", "timeout", "network"}
    \/ op = "get_voices" /\ pc = "done"
    \/ op = "text_to_speech" /\ pc \in {"tts_chunk_delay", "tts_loop"}
                             /\ outcomes # <<>>

\* C22: in every upstream call (get_voices, or _generate_chunk for one
\* chunk) a backoff sleep happens only between two attempts: while the call
\* sleeps it has slept once per attempt made and another attempt follows,
\* and when the call is over (a 200 response, a status that is not retried,
\* or attempt max_retries) it has slept once per attempt but the last, so no
\* sleep follows the attempt that ends it.
C22_BackoffOnlyBetweenAttempts ==
    op \in UpstreamOps =>
        /\ pc \in {"gc_backoff", "gv_backoff"} =>
              /\ sleeps = Len(outcomes)
              /\ attempt = Len(outcomes)
              /\ attempt < max_retries
        /\ pc \in {"gc_send", "gv_send"} =>
              /\ sleeps = Len(outcomes)
              /\ attempt = Len(outcomes) + 1
        /\ pc \in {"gc_wait", "gv_wait"} => sleeps = Len(outcomes)
        /\ CallOver =>
              /\ outcomes # <<>>
              /\ sleeps = Len(outcomes) - 1
              /\ pc \notin {"gc_backoff", "gv_backoff"}
              /\ delay = 0

C22_Witness ==
    /\ op = "get_voices"
    /\ max_retries = 3
    /\ HasRaised
    /\ outcomes = <<TimeoutException, Response(500, <<>>), RequestError>>
    /\ sleeps = 2
    /\ delay = 0

\* text_to_speech has left its chunk loop and is over
PastLoop ==
    /\ op = "text_to_speech"
    /\ pc = "done"
    /\ \/ result.kind = "returned"
       \/ result.kind = "raised" /\ result.site \in {"combine", "no_audio"}

\* C24: a text_to_speech none of whose chunks produced a non-empty audio
\* (the chunk list is empty, or every call of _generate_chunk got a 200
\* response with an empty body) raises an upstream error and returns no
\* audio.
C24_NoAudioIsAnError ==
    (PastLoop /\ \A k \in 1..Len(audio_chunks) : audio_chunks[k] = <<>>) =>
        /\ result.kind = "raised"
        /\ result.exc.type = "ElevenLabsException"
        /\ result.exc.error_code = "UPSTREAM_ERROR"

\* C25: an exception raised inside text_to_speech that is neither a
\* ValidationException nor an ElevenLabsException (the ValueError of
\* combine_audio_chunks for a format it does not support) leaves
\* text_to_speech as a generic upstream error whose retryable flag is TRUE.
C25_UnexpectedIsRetryable ==
    (op = "text_to_speech" /\ HasRaised /\ result.site = "combine") =>
        /\ result.exc.type = "ElevenLabsException"
        /\ result.exc.error_code = "UPSTREAM_ERROR"
        /\ result.exc.retryable

\* C26: every attempt of an upstream call, whatever it ends in (a 200
\* response, an error response, a timeout, a network error), reports once to
\* metrics.record_elevenlabs_request: the reports of the call are as many as
\* the attempts that have ended.
C26_OneReportPerAttempt ==
    op \in UpstreamOps => reports = Len(outcomes)

\* the error _generate_chunk raises for the outcome o of its last attempt
UpstreamErrorOf(o) ==
    IF o.kind = "response"
    THEN [type |-> "ElevenLabsException",
          error_code |-> IF o.status = 401 THEN "AUTH_ERROR"
                         ELSE IF o.status = 403 THEN "FORBIDDEN"
                         ELSE IF o.status = 429 THEN "UPSTREAM_RATE_LIMIT"
                         ELSE "UPSTREAM_ERROR",
          retryable |-> FALSE]
    ELSE [type |-> "ElevenLabsException", error_code |-> "UPSTREAM_ERROR",
          retryable |-> TRUE]

\* the call of _generate_chunk for chunk idx has raised
ChunkFailed ==
    /\ op = "text_to_speech"
    /\ result.kind = "raised"
    /\ result.site \in {"response", "timeout", "network"}

\* C28: when the call of _generate_chunk for chunk k fails for good (a
\* status that is not retried, or the last of max_retries attempts)
\* text_to_speech raises the error of that call with its kind and retryable
\* flag unchanged, and is over: the loop stays at chunk k with the audios of
\* the chunks before k only, no request is out, the combiner has not been
\* handed a format and nothing is returned.
C28_ChunkFailureEndsGeneration ==
    ( /\ op = "text_to_speech"
      /\ pc \notin {"gc_send", "gc_wait", "gc_backoff"}
      /\ outcomes # <<>>
      /\ ~Is200(LastOutcome) ) =>
        /\ ChunkFailed
        /\ pc = "done"
        /\ result.exc = UpstreamErrorOf(LastOutcome)
        /\ IF LastOutcome.kind = "response"
           THEN ~ShouldRetry(LastOutcome.status, Len(outcomes))
           ELSE Len(outcomes) = max_retries
        /\ idx \in 1..Len(chunks)
        /\ Len(audio_chunks) = idx - 1
        /\ ~in_flight
        /\ output_format = ""

\* the first chunk was generated, the second failed with a 401
C28_Witness ==
    /\ ChunkFailed
    /\ pc = "done"
    /\ Len(chunks) = 2
    /\ idx = 2
    /\ audio_chunks = << <<"a">> >>
    /\ LastOutcome = Response(401, <<>>)
    /\ result.exc.error_code = "AUTH_ERROR"
    /\ output_format = ""

\* generate_tts has dealt with the audio text_to_speech returned
RouteOver ==
    /\ op = "text_to_speech"
    /\ result.kind = "returned"
    /\ metadata # NoResult

\* C29: however reload_config, add_voice and remove_voice interleave with a
\* request, the model_used of the metadata of a successful request is the
\* model id text_to_speech resolved and sent with the request's chunks, and
\* a request whose audio was generated does not fail on the registry.
C29_MetadataMatchesGeneration ==
    RouteOver =>
        /\ metadata.kind = "returned" =>
              metadata.value.model_used = resolved.model_id
        /\ ~(metadata.kind = "raised" /\ metadata.site = "get_voice_config")

----------------------------------------------------------------------------
(* Properties of the combiner, checked under SpecCombine.                  *)

\* C17: combine_audio_chunks of a one-element list returns that element
\* unchanged, for every buffer and every format, supported or not: no
\* format check, no decoding and no encoding happen.
C17_SingleChunkIdentity ==
    (pc = "combine_done" /\ Len(audio_chunks) = 1) =>
        result = Returned([mode |-> "single", data |-> audio_chunks[1]])

C17_Witness ==
    /\ pc = "combine_done"
    /\ output_format = "flac"
    /\ audio_chunks = << <<"a">> >>
    /\ result.kind = "returned"
    /\ result.value.data = <<"a">>

\* C18: combine_audio_chunks of the empty list raises ValueError for every
\* format and returns no buffer.
C18_EmptyListRaises ==
    (pc = "combine_done" /\ audio_chunks = <<>>) =>
        /\ result.kind = "raised"
        /\ result.exc.type = "ValueError"

C18_Witness ==
    /\ pc = "combine_done"
    /\ output_format = "mp3"
    /\ audio_chunks = <<>>
    /\ result = Raised(ValueError, "combine_audio_chunks")

----------------------------------------------------------------------------
(* Properties of _sleep_backoff, checked under SpecBackoff.                *)

\* the retry loop sleeps in _sleep_backoff after the failed attempt
Sleeping == pc = "backoff_sleep"

\* the failed response carries a retry-after value: the header is there and
\* is not the empty string (the number that parses, or the text that does
\* not)
CarriesRetryAfter == retry_after_hdr.kind \in {"number", "garbage"}

\* C23: the delay slept before attempt number attempt + 1 is the retry-after
\* value of the failed response when it parses as a number, backoff_base
\* when it does not parse, and otherwise (no retry-after value, or a timeout
\* or a network error, which hand _sleep_backoff no header)
\* min(backoff_max, backoff_base * 2^(attempt - 1)) + j with
\* 0 <= j < backoff_base.
C23_DelaySelection ==
    Sleeping =>
        /\ outcomes[1].kind # "response" => ~CarriesRetryAfter
        /\ retry_after_hdr.kind = "number" => delay = retry_after_hdr.value
        /\ retry_after_hdr.kind = "garbage" => delay = backoff_base
        /\ ~CarriesRetryAfter =>
              \E j \in 0..(backoff_base - 1) :
                 delay = j + (IF backoff_base * 2^(attempt - 1) < backoff_max
                              THEN backoff_base * 2^(attempt - 1)
                              ELSE backoff_max)

\* the fifth attempt has failed with a timeout: the exponential term is past
\* the cap
C23_Witness ==
    /\ Sleeping
    /\ attempt = 5
    /\ outcomes = <<TimeoutException>>
    /\ retry_after_hdr = NoHeader
    /\ delay = backoff_max + 1

\* C30: every backoff sleep of an upstream call lasts at most
\* backoff_max + backoff_base, whatever the provider returns, a retry-after
\* value included.
C30_EverySleepBounded ==
    Sleeping => delay <= backoff_max + backoff_base

\* C30, amended: a backoff sleep lasts at most backoff_max + backoff_base
\* unless the failed response carries a retry-after value that parses as a
\* number, and then it lasts exactly that value, which nothing bounds; the
\* sleep follows an attempt before the max_retries-th, once per attempt.
C30_SleepBoundedUnlessRetryAfter ==
    Sleeping =>
        /\ retry_after_hdr.kind # "number" =>
              delay <= backoff_max + backoff_base
        /\ retry_after_hdr.kind = "number" => delay = retry_after_hdr.value
        /\ attempt < max_retries
        /\ sleeps = 1

\* a 429 response asks for 40 ticks
C30_Witness ==
    /\ Sleeping
    /\ outcomes = <<Response(429, <<>>)>>
    /\ retry_after_hdr = [kind |-> "number", value |-> 40]
    /\ delay = 40
    /\ delay > backoff_max + backoff_base

----------------------------------------------------------------------------
(* Properties of split_sentences, checked under SpecSentences.             *)

\* s is an alphabetic token, possibly with internal dots
DottedToken(s) ==
    /\ s # <<>>
    /\ s[1] \in Letters
    /\ s[Len(s)] \in Letters
    /\ \A k \in 1..Len(s) : s[k] \in Letters \/ s[k] = "."
    /\ \A k \in 1..(Len(s) - 1) : s[k] = "." => s[k + 1] # "."

\* the longest alphabetic token that ends with character p of t, or ""
TokenEndingAt(t, p) ==
    LET starts == { q \in 1..p : DottedToken(SubSeq(t, q, p)) }
    IN  IF starts = {} THEN <<>>
        ELSE SubSeq(t, CHOOSE q \in starts : \A r \in starts : q <= r, p)

\* character p of t is '.', '!' or '?' followed by whitespace
MarkBeforeSpace(t, p) ==
    /\ p < Len(t)
    /\ t[p] \in {".", "!", "?"}
    /\ t[p + 1] \in Spaces

\* character p of t ends a sentence: a mark followed by whitespace, unless it
\* is a period and the token immediately before it, taken with the period
\* and lower-cased, is an abbreviation
IsBoundary(t, p) ==
    /\ MarkBeforeSpace(t, p)
    /\ ~( /\ t[p] = "."
          /\ Lower(TokenEndingAt(t, p - 1) \o <<".">>) \in abbreviations )

\* the sentences of t when it is cut after the characters of the set ends:
\* each piece stripped, the remainder kept when it is not blank
RECURSIVE CutAfter(_, _, _, _)
CutAfter(t, ends, from, p) ==
    IF p > Len(t)
    THEN LET tail == Strip(SubSeq(t, from, Len(t)))
         IN  IF tail # <<>> THEN <<tail>> ELSE <<>>
    ELSE IF p \in ends
         THEN <<Strip(SubSeq(t, from, p))>> \o CutAfter(t, ends, p + 1, p + 1)
         ELSE CutAfter(t, ends, from, p + 1)

\* C27: split_sentences cuts its text at exactly the occurrences of '.', '!'
\* or '?' followed by whitespace at which the alphabetic token (possibly
\* with internal dots) immediately before a period, taken with the period
\* and lower-cased, is not in the abbreviation set: a period after an
\* abbreviation in any letter case ends no sentence, '!' and '?' followed by
\* whitespace always end one.
C27_BoundariesExact ==
    pc = "split_done" =>
        chunks = CutAfter(text, { p \in 1..Len(text) : IsBoundary(text, p) },
                          1, 1)

====
